---- MODULE Spec2Model ----
(***************************************************************************)
(* A model of shared/data_analysis.py: the qPCR importer (DataImporter),   *)
(* its table helpers, and the classifier (DataAnalyzer).                   *)
(*                                                                         *)
(* Python lists are 0-based; the sequences below are 1-based, so python    *)
(* index i is sequence position i + 1 (cq_vals[1] is python cq_vals[0]).   *)
(* A dataframe is a sequence of rows, a row a function from column labels  *)
(* to cell values.  A column label f'{x} CT' is the pair <<x, "CT">>, and  *)
(* a label without a prefix ('Well') is <<"", "Well">>.                    *)
(***************************************************************************)
EXTENDS Integers, Sequences, FiniteSets, TLC

VARIABLES
    \* DataImporter / DataAnalyzer configuration
    machine_type,        \* self.machine_type
    division,            \* self.division: "vhf" or "hiv"
    reporter_list,       \* self.reporter_list: the configured order of the fluors
    reporter_dict,       \* self.reporter_dict: fluor -> display name
    ic,                  \* self.ic: the internal control's fluor
    max_dRn,             \* self.max_dRn_dict: fluor -> max delta Rn on the plate
    pos_cutoff,          \* DataAnalyzer.pos_cutoff
    cq_cutoff,           \* DataImporter.cq_cutoff
    \* DataAnalyzer state
    df,                  \* self.df: the merged table, then the annotated table
    \* DataImporter state
    input,               \* what the user selected: the file(s) as read
    results,             \* self.results: the table a parser or helper produced
    used_filepaths,      \* parse_rgq: the files matched to a reporter
    found,               \* parse_qs / parse_mic: the reporters found in the file
    results_dict,        \* parse_qs / parse_mic: the per-reporter tables built
    tabs_to_use,         \* parse_mic: fluor -> position of the chunk or tab chosen for it
    head,                \* self.head: the header lines extract_header captured
    read_attempts,       \* parse_qs: the times pd.read_excel was called on the file
    pc                   \* where the run is: "start", "retry", "parsed", "analysed", "reanalysed",
                         \* "returned", "fatal" (SystemExit), "crash" (uncaught exception)

vars == <<machine_type, division, reporter_list, reporter_dict, ic, max_dRn,
          pos_cutoff, cq_cutoff, df, input, results, used_filepaths, found,
          results_dict, tabs_to_use, head, read_attempts, pc>>

config_vars == <<machine_type, division, reporter_list, reporter_dict, ic,
                 max_dRn, pos_cutoff, cq_cutoff>>

importer_vars == <<input, results, used_filepaths, found, results_dict, tabs_to_use, head,
                   read_attempts>>

(***************************************************************************)
(* Cell values.  pandas cells are floats (with inf and NaN) or strings.    *)
(* A finite float is the exact fraction n/d in lowest terms, d > 0.        *)
(***************************************************************************)
RECURSIVE GCD(_, _)
GCD(a, b) == IF b = 0 THEN a ELSE GCD(b, a % b)

Abs(n) == IF n < 0 THEN -n ELSE n

Frac(n, d) ==
    LET g == GCD(Abs(n), d)
    IN  [k |-> "num", n |-> n \div g, d |-> d \div g, s |-> <<>>]

Num(n) == Frac(n, 1)

NaN == [k |-> "nan", n |-> 0, d |-> 0, s |-> <<>>]

Inf == [k |-> "inf", n |-> 1, d |-> 0, s |-> <<>>]

\* A string cell is the sequence of its space-separated parts:
\* f'{name} Positive' is <<name, "Positive">>.
Str(x) == [k |-> "str", n |-> 0, d |-> 0, s |-> <<x>>]

Str2(x, y) == [k |-> "str", n |-> 0, d |-> 0, s |-> <<x, y>>]

\* IEEE division of two finite non-negative floats, as numpy does it:
\* x/0 is inf for x > 0 and NaN for x = 0; NaN propagates.
Div(a, b) ==
    IF a.k # "num" \/ b.k # "num" THEN NaN
    ELSE IF b.n = 0 THEN (IF a.n = 0 THEN NaN ELSE Inf)
    ELSE Frac(a.n * b.d, a.d * b.n)

\* a < b on floats: every comparison with NaN is false.
Lt(a, b) ==
    /\ a.k \in {"num", "inf"} /\ b.k \in {"num", "inf"}
    /\ a.k = "num"
    /\ (b.k = "inf" \/ a.n * b.d < b.n * a.d)

Gt(a, b) == Lt(b, a)

Ge(a, b) ==
    /\ a.k \in {"num", "inf"} /\ b.k \in {"num", "inf"}
    /\ (a.k = "inf" \/ (b.k = "num" /\ a.n * b.d >= b.n * a.d))

\* DataFrame.fillna(0) on one cell
fillna0(v) == IF v.k = "nan" THEN Num(0) ELSE v

Col(prefix, field) == <<prefix, field>>

\* row with column c set to v (added when absent, overwritten when present)
SetCol(row, c, v) == (c :> v) @@ row

(***************************************************************************)
(* Configuration: the assays of the configuration file (init_reporters),   *)
(* and the defaults of the constructors.                                   *)
(***************************************************************************)
DefaultCqCutoff == 35

DefaultPosCutoff == 30

dRn_percent_cutoff == Frac(1, 20)      \* 0.05

min_drm_percent == Frac(1, 20)         \* 0.05

max_drm_percent == Frac(1, 10)         \* 0.1

IcSentinel == 98

NegSentinel == 99

MinIcQuantity == 50

\* The assays: the reporters in configured order with their display names,
\* and the internal control, which the classifier expects first.
Assays ==
    { [list |-> <<"CY5", "FAM", "VIC">>,
       dict |-> [f \in {"CY5", "FAM", "VIC"} |->
                    CASE f = "CY5" -> "Internal Control"
                      [] f = "FAM" -> "Ebola"
                      [] f = "VIC" -> "Lassa"],
       ic |-> "CY5"],
      [list |-> <<"CY5", "VIC", "FAM">>,
       dict |-> [f \in {"CY5", "FAM", "VIC"} |->
                    CASE f = "CY5" -> "Internal Control"
                      [] f = "FAM" -> "Ebola"
                      [] f = "VIC" -> "Lassa"],
       ic |-> "CY5"],
      [list |-> <<"CY5", "FAM">>,
       dict |-> [f \in {"CY5", "FAM"} |->
                    CASE f = "CY5" -> "Internal Control"
                      [] f = "FAM" -> "Ebola"],
       ic |-> "CY5"] }

MachineTypes == {"QuantStudio 3", "QuantStudio 5", "Rotor-Gene", "Mic"}

\* 'QuantStudio' in self.machine_type
IsQuantStudio(m) == m \in {"QuantStudio 3", "QuantStudio 5"}

Range(s) == {s[i] : i \in DOMAIN s}

(***************************************************************************)
(* DataAnalyzer                                                            *)
(***************************************************************************)
\* min(cq_vals)
ListMin(s) == CHOOSE v \in Range(s) : \A w \in Range(s) : ~Lt(w, v)

\* faulty variant: the last position holding v
ListIndexLast(s, v) ==
    CHOOSE i \in DOMAIN s : s[i] = v /\ \A j \in (i + 1)..Len(s) : s[j] # v

\* cq_vals.index(v): the first position holding v
ListIndex(s, v) == CHOOSE i \in DOMAIN s : s[i] = v /\ \A j \in 1..(i - 1) : s[j] # v

\* faulty variant: a Cq equal to the cutoff counts as positive
positive_signal_inclusive(row, fluor) ==
    IF machine_type = "QuantStudio 3" \/ machine_type = "QuantStudio 5"
    THEN /\ ~Lt(Num(pos_cutoff), row[Col(fluor, "CT")])
         /\ Gt(Div(row[Col(fluor, "dRn")], max_dRn[fluor]), dRn_percent_cutoff)
    ELSE ~Lt(Num(pos_cutoff), row[Col(fluor, "CT")])

\* the test that decides whether a reporter's Cq is appended
positive_signal(row, fluor) ==
    IF machine_type = "QuantStudio 3" \/ machine_type = "QuantStudio 5"
    THEN /\ Lt(row[Col(fluor, "CT")], Num(pos_cutoff))
         /\ Gt(Div(row[Col(fluor, "dRn")], max_dRn[fluor]), dRn_percent_cutoff)
    ELSE Lt(row[Col(fluor, "CT")], Num(pos_cutoff))

\* the list vhf_result builds: the sentinel 98 at python index 0, then one
\* entry per reporter at python index 1..len-1
cq_vals(row) ==
    [i \in 1..Len(reporter_list) |->
        IF i = 1 THEN Num(IcSentinel)
        ELSE IF positive_signal(row, reporter_list[i])
             THEN row[Col(reporter_list[i], "CT")]
             ELSE Num(NegSentinel)]

\* faulty variant: an internal control at the cutoff counts as amplified
vhf_result_ic_inclusive(row) ==
    LET fluor_min == ListIndex(cq_vals(row), ListMin(cq_vals(row)))
    IN  IF fluor_min # 1
        THEN Str2(reporter_dict[reporter_list[fluor_min]], "Positive")
        ELSE IF ~Lt(Num(pos_cutoff), row[Col(ic, "CT")])
             THEN Str("Negative")
             ELSE Str("Invalid Result")

vhf_result(row) ==
    LET fluor_min == ListIndex(cq_vals(row), ListMin(cq_vals(row)))
    IN  IF fluor_min # 1
        THEN Str2(reporter_dict[reporter_list[fluor_min]], "Positive")
        ELSE IF Lt(row[Col(ic, "CT")], Num(pos_cutoff))
             THEN Str("Negative")
             ELSE Str("Invalid Result")

\* faulty variant: a percentage equal to the maximum is not yet positive
hiv_result_exclusive_max(row, col) ==
    IF Lt(row[col], min_drm_percent) \/ Lt(row[Col(ic, "Quantity")], Num(MinIcQuantity))
    THEN "Negative"
    ELSE IF Gt(row[col], max_drm_percent)
         THEN "Positive"
         ELSE "Indeterminate"

hiv_result(row, col) ==
    IF Lt(row[col], min_drm_percent) \/ Lt(row[Col(ic, "Quantity")], Num(MinIcQuantity))
    THEN "Negative"
    ELSE IF Ge(row[col], max_drm_percent)
         THEN "Positive"
         ELSE "Indeterminate"

\* faulty variant: the percentage is also written over the reporter's quantity
hiv_step_overwrites_quantity(d, i) ==
    LET fluor == reporter_list[i]
        pcol == Col(reporter_dict[fluor], "DRM Percentage")
        ccol == Col(reporter_dict[fluor], "Call")
        pct(w) == Div(d[w][Col(fluor, "Quantity")], d[w][Col(ic, "Quantity")])
        assigned == [w \in DOMAIN d |->
                        SetCol(SetCol(d[w], pcol, pct(w)), Col(fluor, "Quantity"), pct(w))]
        filled == [w \in DOMAIN d |->
                        [c \in DOMAIN assigned[w] |-> fillna0(assigned[w][c])]]
    IN  [w \in DOMAIN d |-> SetCol(filled[w], ccol, Str(hiv_result(filled[w], pcol)))]

\* one pass of hiv_analysis's loop body, for the reporter at position i
hiv_step(d, i) ==
    LET fluor == reporter_list[i]
        pcol == Col(reporter_dict[fluor], "DRM Percentage")
        ccol == Col(reporter_dict[fluor], "Call")
        assigned == [w \in DOMAIN d |->
                        SetCol(d[w], pcol,
                               Div(d[w][Col(fluor, "Quantity")], d[w][Col(ic, "Quantity")]))]
        filled == [w \in DOMAIN d |->
                        [c \in DOMAIN assigned[w] |-> fillna0(assigned[w][c])]]
    IN  [w \in DOMAIN d |-> SetCol(filled[w], ccol, Str(hiv_result(filled[w], pcol)))]

\* for fluor in self.reporter_list[1:]
RECURSIVE hiv_loop(_, _)
hiv_loop(d, i) ==
    IF i > Len(reporter_list) THEN d ELSE hiv_loop(hiv_step(d, i), i + 1)

vhf_analysis ==
    /\ division = "vhf"
    /\ pc \in {"parsed", "analysed", "reanalysed"}
    /\ df' = [w \in DOMAIN df |-> SetCol(df[w], Col("", "Result"), vhf_result(df[w]))]
    /\ pc' = IF pc = "parsed" THEN "analysed" ELSE "reanalysed"
    /\ UNCHANGED <<config_vars, importer_vars>>

hiv_analysis ==
    /\ division = "hiv"
    /\ pc \in {"parsed", "analysed", "reanalysed"}
    /\ df' = hiv_loop(df, 2)
    /\ pc' = IF pc = "parsed" THEN "analysed" ELSE "reanalysed"
    /\ UNCHANGED <<config_vars, importer_vars>>

(***************************************************************************)
(* The classifier's specification: a merged table as the parsers hand it   *)
(* over (summarize's columns, Cq substituted, quantities numeric), then    *)
(* vhf_analysis or hiv_analysis, any number of times.                      *)
(***************************************************************************)
NumWells == 1

Wells == 1..NumWells

\* the columns summarize selects, for the reporters of an assay
MergedColumns(fluors, m, dv) ==
    {Col("", "Well"), Col("", "Sample Name")}
    \cup {Col(f, "CT") : f \in fluors}
    \cup (IF IsQuantStudio(m)
          THEN {Col(f, "Cq Conf") : f \in fluors} \cup {Col(f, "dRn") : f \in fluors}
          ELSE {})
    \cup (IF dv = "hiv" THEN {Col(f, "Quantity") : f \in fluors} ELSE {})

MergedRow(fluors, m, dv, well, name, ct, drn, qty) ==
    [c \in MergedColumns(fluors, m, dv) |->
        CASE c[2] = "Well" -> Num(well)
          [] c[2] = "Sample Name" -> name
          [] c[2] = "CT" -> Num(ct[c[1]])
          [] c[2] = "Cq Conf" -> Frac(9, 10)
          [] c[2] = "dRn" -> Num(drn[c[1]])
          [] c[2] = "Quantity" -> Num(qty[c[1]])]

\* Cq values around the positivity cutoff, and the substitution value
CtInputs(is_ic, dv, pos, cq) ==
    IF dv = "hiv" THEN {pos - 1}
    ELSE IF is_ic THEN {pos - 1, pos, cq}
    ELSE {pos - 2, pos - 1, pos, cq}

\* delta Rn at and above 0.05 of the plate maximum (20)
dRnInputs(is_ic, m, dv) ==
    IF IsQuantStudio(m) /\ dv = "vhf" /\ ~is_ic THEN {1, 2} ELSE {1}

\* quantities: an internal control at 0, below, at and above 50 copies;
\* targets at 0, 0.04, 0.05, 0.07 and 0.1 of 1000 copies
QuantityInputs(is_ic, dv) ==
    IF dv # "hiv" THEN {0}
    ELSE IF is_ic THEN {0, 49, 50, 1000}
    ELSE {0, 40, 50, 70, 100}

SampleNameInputs(dv) == IF dv = "hiv" THEN {Str("S1"), NaN} ELSE {Str("S1")}

\* the rows a parser can hand over for one well of an assay's plate
RowInputs(a, m, dv, pos, cq) ==
    LET targets == Range(a.list) \ {a.ic}
    IN  { MergedRow(Range(a.list), m, dv, 1, name,
                    (a.ic :> ict) @@ tct, (a.ic :> idrn) @@ tdrn, (a.ic :> iqty) @@ tqty) :
            name \in SampleNameInputs(dv),
            ict \in CtInputs(TRUE, dv, pos, cq),
            tct \in [targets -> CtInputs(FALSE, dv, pos, cq)],
            idrn \in dRnInputs(TRUE, m, dv),
            tdrn \in [targets -> dRnInputs(FALSE, m, dv)],
            iqty \in QuantityInputs(TRUE, dv),
            tqty \in [targets -> QuantityInputs(FALSE, dv)] }

\* the runs explored: the quantitative workflow on the instruments whose
\* tables carry a quantity; the two QuantStudio models share every code path,
\* so the second one and the quantitative workflow run fewer plates
Setup(a, m, dv) ==
    /\ dv = "hiv" => m \in {"QuantStudio 5", "Mic"} /\ a.list # <<"CY5", "VIC", "FAM">>
    /\ m = "QuantStudio 3" => Len(a.list) = 2

IdleImporter ==
    /\ input = [kind |-> "none"]
    /\ results = [cols |-> {}, rows |-> <<>>]
    /\ used_filepaths = <<>>
    /\ found = {}
    /\ head = <<>>
    /\ tabs_to_use = <<>>
    /\ read_attempts = 0
    /\ results_dict = <<>>

InitAnalyzer ==
    /\ IdleImporter
    /\ pc = "parsed"
    /\ pos_cutoff = DefaultPosCutoff
    /\ cq_cutoff = DefaultCqCutoff
    /\ \E a \in Assays, m \in MachineTypes, dv \in {"vhf", "hiv"} :
        /\ Setup(a, m, dv)
        /\ machine_type = m
        /\ division = dv
        /\ reporter_list = a.list
        /\ reporter_dict = a.dict
        /\ ic = a.ic
        /\ max_dRn = IF IsQuantStudio(m) THEN [f \in Range(a.list) |-> Num(20)] ELSE <<>>
        /\ \E r \in [Wells -> RowInputs(a, m, dv, DefaultPosCutoff, DefaultCqCutoff)] :
              df = [w \in Wells |-> SetCol(r[w], Col("", "Well"), Num(w))]

NextAnalyzer == vhf_analysis \/ hiv_analysis

SpecAnalyzer == InitAnalyzer /\ [][NextAnalyzer]_vars

(***************************************************************************)
(* The classifier on assays whose internal control is configured at any    *)
(* position of the reporter order (init_reporters takes the order of the   *)
(* assay's table and the internal control from its own key).               *)
(***************************************************************************)
AnyOrderAssays ==
    { [list |-> l,
       dict |-> [f \in Range(l) |->
                    CASE f = "CY5" -> "Internal Control"
                      [] f = "FAM" -> "Ebola"
                      [] f = "VIC" -> "Lassa"],
       ic |-> "CY5"] :
        l \in { <<"CY5", "FAM">>, <<"FAM", "CY5">>,
                <<"FAM", "CY5", "VIC">>, <<"FAM", "VIC", "CY5">> } }

InitAnyOrder ==
    /\ IdleImporter
    /\ pc = "parsed"
    /\ pos_cutoff = DefaultPosCutoff
    /\ cq_cutoff = DefaultCqCutoff
    /\ \E a \in AnyOrderAssays, m \in {"QuantStudio 5", "Mic"}, dv \in {"vhf", "hiv"} :
        /\ machine_type = m
        /\ division = dv
        /\ reporter_list = a.list
        /\ reporter_dict = a.dict
        /\ ic = a.ic
        /\ max_dRn = IF IsQuantStudio(m) THEN [f \in Range(a.list) |-> Num(20)] ELSE <<>>
        /\ \E r \in [Wells -> RowInputs(a, m, dv, DefaultPosCutoff, DefaultCqCutoff)] :
              df = [w \in Wells |-> SetCol(r[w], Col("", "Well"), Num(w))]

SpecAnyOrder == InitAnyOrder /\ [][NextAnalyzer]_vars

(***************************************************************************)
(* The viral classifier under the cutoffs a caller can configure: the      *)
(* importer's cq_cutoff and the analyzer's pos_cutoff are two independent  *)
(* constructor arguments.                                                  *)
(***************************************************************************)
\* <<cq_cutoff, pos_cutoff>>: the defaults, equal cutoffs, and a positivity
\* cutoff above the substitution value
CutoffPairs == { <<35, 30>>, <<35, 35>>, <<35, 40>>, <<30, 35>> }

InitCutoffs ==
    /\ IdleImporter
    /\ pc = "parsed"
    /\ division = "vhf"
    /\ \E p \in CutoffPairs : cq_cutoff = p[1] /\ pos_cutoff = p[2]
    /\ \E a \in Assays, m \in {"QuantStudio 5", "Rotor-Gene", "Mic"} :
        /\ machine_type = m
        /\ reporter_list = a.list
        /\ reporter_dict = a.dict
        /\ ic = a.ic
        /\ max_dRn = IF IsQuantStudio(m) THEN [f \in Range(a.list) |-> Num(20)] ELSE <<>>
        /\ \E r \in [Wells -> RowInputs(a, m, "vhf", pos_cutoff, cq_cutoff)] :
              df = [w \in Wells |-> SetCol(r[w], Col("", "Well"), Num(w))]

NextCutoffs == vhf_analysis

SpecCutoffs == InitCutoffs /\ [][NextCutoffs]_vars

(***************************************************************************)
(* DataImporter: tables.  A table is its set of column labels and its      *)
(* sequence of rows (a frame with no rows still has its columns).          *)
(***************************************************************************)
Table(cols, rows) == [cols |-> cols, rows |-> rows]

NoTable == Table({}, <<>>)

WellCol == Col("", "Well")

WellKeys(t) == {t.rows[i][WellCol] : i \in DOMAIN t.rows}

\* df.loc[:, columns]: the named columns of every row
Select(t, columns) ==
    Table(columns, [i \in DOMAIN t.rows |-> [c \in columns |-> t.rows[i][c]]])

\* the label pandas gives a column present on both sides of a merge
Suffixed(c, side) == <<c[1], IF side = "x" THEN "CT_x" ELSE "CT_y">>

RECURSIVE FlattenSeq(_)
FlattenSeq(ss) == IF ss = <<>> THEN <<>> ELSE Head(ss) \o FlattenSeq(Tail(ss))

\* pd.merge(left, right, on='Well'): the inner join, in the left table's
\* order; a column on both sides comes out twice, as _x and _y
Merge(left, right) ==
    LET both == (left.cols \cap right.cols) \ {WellCol}
        lname(c) == IF c \in both THEN Suffixed(c, "x") ELSE c
        rname(c) == IF c \in both THEN Suffixed(c, "y") ELSE c
        cols == {lname(c) : c \in left.cols} \cup {rname(c) : c \in right.cols \ {WellCol}}
        joined(l, r) ==
            [c \in cols |->
                IF \E lc \in left.cols : lname(lc) = c
                THEN l[CHOOSE lc \in left.cols : lname(lc) = c]
                ELSE r[CHOOSE rc \in right.cols \ {WellCol} : rname(rc) = c]]
        matches(l) == SelectSeq(right.rows, LAMBDA r : r[WellCol] = l[WellCol])
        per_left(l) == [k \in DOMAIN matches(l) |-> joined(l, matches(l)[k])]
    IN  Table(cols, FlattenSeq([i \in DOMAIN left.rows |-> per_left(left.rows[i])]))

\* the columns summarize takes from one reporter's table
SummaryColumns(fluor, first_loop) ==
    ({WellCol, Col(fluor, "CT")}
        \cup (IF first_loop THEN {Col("", "Sample Name")} ELSE {})
        \cup (IF IsQuantStudio(machine_type)
              THEN {Col(fluor, "Cq Conf"), Col(fluor, "dRn")} ELSE {})
        \cup (IF division = "hiv" THEN {Col(fluor, "Quantity")} ELSE {}))

\* summarize(df_dict), over the fluors in df_dict's order; the outcome is
\* "ok" with the summary table, "fatal" (the first table lacks a column:
\* SystemExit) or "crash" (a later one does: KeyError)
RECURSIVE summarize_loop(_, _, _, _)
summarize_loop(df_dict, order, i, summary_table) ==
    IF i > Len(order) THEN [status |-> "ok", table |-> summary_table]
    ELSE LET fluor == order[i]
             columns == SummaryColumns(fluor, i = 1)
         IN  IF ~(columns \subseteq df_dict[fluor].cols)
             THEN [status |-> IF i = 1 THEN "fatal" ELSE "crash", table |-> NoTable]
             ELSE summarize_loop(df_dict, order, i + 1,
                     IF i = 1 THEN Select(df_dict[fluor], columns)
                     ELSE Merge(summary_table, Select(df_dict[fluor], columns)))

summarize(df_dict, order) == summarize_loop(df_dict, order, 1, NoTable)

(***************************************************************************)
(* csv_to_df.  A line is the list of its cells, as csv.reader yields it.   *)
(***************************************************************************)
\* str.strip() on the cells that occur
Strip(cell) == IF cell = " " THEN "" ELSE cell

isblank(row) == \A i \in DOMAIN row : Strip(row[i]) = ""

\* the for loop of csv_to_df from line i on
RECURSIVE csv_lines(_, _, _, _, _)
csv_lines(lines, results_flag, i, data_bool, data_cleaned) ==
    IF i > Len(lines) THEN data_cleaned
    ELSE LET line == lines[i]
             capturing == IF isblank(line) THEN FALSE ELSE data_bool
             cleaned == IF capturing THEN Append(data_cleaned, line) ELSE data_cleaned
         IN  csv_lines(lines, results_flag, i + 1,
                       IF results_flag \in Range(line) THEN TRUE ELSE capturing,
                       cleaned)

MaxOf(S) == CHOOSE n \in S : \A m \in S : m <= n

\* csv_to_df: "crash" when data_cleaned.pop(0) finds the list empty
\* (IndexError) or the rows are wider or narrower than the header
\* (ValueError from the DataFrame constructor), else the table
csv_to_df(lines, results_flag) ==
    LET data_cleaned == csv_lines(lines, results_flag, 1, FALSE, <<>>)
        header == Head(data_cleaned)
        rows == Tail(data_cleaned)
        cols == {Col("", header[k]) : k \in DOMAIN header}
        cell(r, c) == LET k == CHOOSE x \in DOMAIN header : Col("", header[x]) = c
                      IN  IF k <= Len(r) THEN Str(r[k]) ELSE NaN
    IN  IF data_cleaned = <<>> THEN [status |-> "crash", table |-> NoTable]
        ELSE IF rows # <<>> /\ MaxOf({Len(rows[i]) : i \in DOMAIN rows}) # Len(header)
        THEN [status |-> "crash", table |-> NoTable]
        ELSE [status |-> "returned",
              table |-> Table(cols, [i \in DOMAIN rows |-> [c \in cols |-> cell(rows[i], c)]])]

\* a call of csv_to_df on the lines of a file
call_csv_to_df ==
    /\ pc = "start"
    /\ input.kind = "csv"
    /\ LET r == csv_to_df(input.lines, input.flag)
       IN  results' = r.table /\ pc' = r.status
    /\ UNCHANGED <<config_vars, df, input, used_filepaths, found, results_dict, head,
                   read_attempts, tabs_to_use>>

(***************************************************************************)
(* extract_header.  `x in str(line)` is a substring test on the printed    *)
(* list of cells: x is found when it is a cell or a part of one.  A flag   *)
(* or stop that is not given (None) is "", which python tests the same.    *)
(***************************************************************************)
\* the words inside the cells that occur, besides the cell itself
Substrings(cell) ==
    CASE cell = "Experiment Name" -> {"Experiment"}
      [] cell = "Experiment Log"  -> {"Experiment", "Log"}
      [] OTHER -> {}

str_contains(line, x) ==
    \E i \in DOMAIN line : x = line[i] \/ x \in Substrings(line[i])

\* faulty variant: the flag is looked for before the stop
RECURSIVE header_lines_flag_first(_, _, _, _, _, _)
header_lines_flag_first(lines, flag, stop, i, headbool, hd) ==
    IF i > Len(lines) THEN hd
    ELSE LET line == lines[i]
             stopped == IF stop = "" THEN isblank(line) ELSE str_contains(line, stop)
             after_flag == IF flag # "" /\ str_contains(line, flag) THEN TRUE
                           ELSE headbool
             after_stop == IF stopped THEN FALSE ELSE after_flag
         IN  header_lines_flag_first(lines, flag, stop, i + 1, after_stop,
                                     IF after_stop THEN Append(hd, line) ELSE hd)

\* the for loop of extract_header from line i on
RECURSIVE header_lines(_, _, _, _, _, _)
header_lines(lines, flag, stop, i, headbool, hd) ==
    IF i > Len(lines) THEN hd
    ELSE LET line == lines[i]
             stopped == IF stop = "" THEN isblank(line) ELSE str_contains(line, stop)
             after_stop == IF stopped THEN FALSE ELSE headbool
             after_flag == IF flag # "" /\ str_contains(line, flag) THEN TRUE
                           ELSE after_stop
         IN  header_lines(lines, flag, stop, i + 1, after_flag,
                          IF after_flag THEN Append(hd, line) ELSE hd)

extract_header(lines, flag, stop) ==
    header_lines(lines, flag, stop, 1, flag = "", <<>>)

\* a call of extract_header on the lines of a file
call_extract_header ==
    /\ pc = "start"
    /\ input.kind = "header"
    /\ head' = extract_header(input.lines, input.flag, input.stop)
    /\ pc' = "returned"
    /\ UNCHANGED <<config_vars, df, input, results, used_filepaths, found, results_dict,
                   read_attempts, tabs_to_use>>

(***************************************************************************)
(* extract_results.  The sheet as read at the fixed offset: a header (the  *)
(* list of column names) and rows, each the list of its cells.             *)
(***************************************************************************)
\* int(cell) returns: a number does, text and NaN raise ValueError
int_converts(cell) == cell.k = "num"

\* the loop over the rows: the rows to drop and the last of them as col_names
RECURSIVE scan_rows(_, _, _, _)
scan_rows(rows, i, col_names, row_indices_to_drop) ==
    IF i > Len(rows) THEN [col_names |-> col_names, drop |-> row_indices_to_drop]
    ELSE IF int_converts(rows[i][1])
    THEN scan_rows(rows, i + 1, col_names, row_indices_to_drop)
    ELSE scan_rows(rows, i + 1, <<rows[i]>>, row_indices_to_drop \cup {i})

\* col_names is None as <<>>, a list of names as <<names>>
extract_results(t) ==
    LET scan == scan_rows(t.rows, 1, <<>>, {})
        kept == SelectSeq([i \in DOMAIN t.rows |-> i], LAMBDA i : i \notin scan.drop)
    IN  IF scan.col_names = <<>> THEN t
        ELSE [header |-> scan.col_names[1],
              rows |-> [k \in DOMAIN kept |-> t.rows[kept[k]]]]

\* a call of extract_results on a sheet
call_extract_results ==
    /\ pc = "start"
    /\ input.kind = "sheet"
    /\ results' = extract_results(input.table)
    /\ pc' = "returned"
    /\ UNCHANGED <<config_vars, df, input, used_filepaths, found, results_dict, head,
                   read_attempts, tabs_to_use>>

\* the failed reads of one run that are followed, at most
MaxAttempts == 3

(***************************************************************************)
(* parse_qs.  The selected file is modelled from the point where the       *)
(* results table has been read: its rows, one per well and reporter label, *)
(* and whether it has the 'CT' column of a QuantStudio export.             *)
(***************************************************************************)
BaselineEndIc == 5

BaselineEndTarget == 10

\* Series.max(): NaN over no rows
FloatMax(S) == IF S = {} THEN NaN ELSE CHOOSE v \in S : \A w \in S : ~Lt(v, w)

\* faulty variant: the file may hold fewer reporters than the assay
fluors_match_subset(fluors, expected) == fluors \subseteq expected

\* sorted(fluors in the file) == sorted(self.reporter_dict): both lists hold
\* no label twice, so they are equal iff the sets are
fluors_match(fluors, expected) == fluors = expected

\* replace(to_replace='Undetermined', value=self.cq_cutoff)
replace_undetermined(v) == IF v = Str("Undetermined") THEN Num(cq_cutoff) ELSE v

\* results_table.loc[results_table['Reporter'] == fluor], columns renamed
qs_reporter_table(rows, fluor) ==
    LET mine == SelectSeq(rows, LAMBDA r : r[Col("", "Reporter")] = Str(fluor))
    IN  Table({WellCol, Col("", "Sample Name"), Col("", "Reporter"), Col("", "Baseline End"),
               Col(fluor, "CT"), Col(fluor, "Cq Conf"), Col(fluor, "dRn")},
              [i \in DOMAIN mine |->
                  LET r == mine[i]
                  IN  (WellCol :> r[Col("", "Well Position")])
                      @@ (Col("", "Sample Name") :> r[Col("", "Sample Name")])
                      @@ (Col("", "Reporter") :> r[Col("", "Reporter")])
                      @@ (Col("", "Baseline End") :> r[Col("", "Baseline End")])
                      @@ (Col(fluor, "CT") :> replace_undetermined(r[Col("", "CT")]))
                      @@ (Col(fluor, "Cq Conf") :> r[Col("", "Cq Conf")])
                      @@ (Col(fluor, "dRn") :> r[Col("", "Delta Rn (last cycle)")])])

\* the maximum dRn over the reporter's rows with an acceptable Baseline End
qs_max_dRn(t, fluor) ==
    LET baseline_end == IF reporter_dict[fluor] = "Internal Control"
                        THEN BaselineEndIc ELSE BaselineEndTarget
    IN  FloatMax({t.rows[i][Col(fluor, "dRn")] :
                    i \in {j \in DOMAIN t.rows :
                              Ge(t.rows[j][Col("", "Baseline End")], Num(baseline_end))}})

\* pd.read_excel raises (wrong file, or the file is open elsewhere) and the
\* user answers the Retry/Cancel dialog: Retry goes round the while loop,
\* Cancel raises SystemExit
parse_qs_read_fails ==
    /\ pc \in {"start", "retry"}
    /\ IsQuantStudio(machine_type)
    /\ read_attempts < MaxAttempts
    /\ read_attempts' = read_attempts + 1
    /\ \E proceed \in BOOLEAN : pc' = IF proceed THEN "retry" ELSE "fatal"
    /\ UNCHANGED <<config_vars, df, input, results, used_filepaths, found, results_dict,
                   head, tabs_to_use>>

\* the read succeeds and the rest of parse_qs runs
parse_qs ==
    /\ pc \in {"start", "retry"}
    /\ IsQuantStudio(machine_type)
    /\ read_attempts' = read_attempts + 1
    /\ LET fluors == {input.rows[i][Col("", "Reporter")].s[1] : i \in DOMAIN input.rows}
           tables == [f \in DOMAIN reporter_dict |-> qs_reporter_table(input.rows, f)]
           summary == summarize(tables, reporter_list)
       IN  IF ~input.has_ct
           THEN \* results_table['CT'] raises: 'Unexpected machine type', SystemExit
                /\ pc' = "fatal"
                /\ UNCHANGED <<found, results_dict, max_dRn, results>>
           ELSE IF ~fluors_match(fluors, DOMAIN reporter_dict)
           THEN /\ pc' = "fatal"
                /\ found' = fluors
                /\ UNCHANGED <<results_dict, max_dRn, results>>
           ELSE /\ found' = fluors
                /\ results_dict' = tables
                /\ max_dRn' = [f \in DOMAIN reporter_dict |-> qs_max_dRn(tables[f], f)]
                /\ results' = summary.table
                /\ pc' = IF summary.status = "ok" THEN "parsed" ELSE summary.status
    /\ UNCHANGED <<machine_type, division, reporter_list, reporter_dict, ic,
                   pos_cutoff, cq_cutoff, df, input, used_filepaths, head, tabs_to_use>>

(***************************************************************************)
(* parse_rgq.  A selected file is its path, the set of x for which the     *)
(* path contains the substring f'{x}.csv', whether its table has the 'Ct'  *)
(* column, and the wells of its table.                                     *)
(***************************************************************************)
\* DataFrame.rename(columns=names): labels absent from the frame are ignored
Rename(t, names) ==
    LET new(c) == IF c \in DOMAIN names THEN names[c] ELSE c
        cols == {new(c) : c \in t.cols}
    IN  Table(cols, [i \in DOMAIN t.rows |->
                        [c \in cols |-> t.rows[i][CHOOSE o \in t.cols : new(o) = c]]])

\* pd.read_csv(filepath, skiprows=27), then Ct.fillna(self.cq_cutoff)
rgq_read(file) ==
    Table({Col("", "No."), Col("", "Name"), Col("", "Ct"), Col("", "Ct Comment"),
           Col("", "Given Conc (copies/reaction)")},
          [i \in DOMAIN file.wells |->
              (Col("", "No.") :> Num(file.wells[i]))
              @@ (Col("", "Name") :> Str("S1"))
              @@ (Col("", "Ct") :> IF file.wells[i] = 1 THEN Num(29) ELSE Num(cq_cutoff))
              @@ (Col("", "Ct Comment") :> NaN)
              @@ (Col("", "Given Conc (copies/reaction)") :> NaN)])

rgq_names(fluor) ==
    (Col("", "No.") :> WellCol)
    @@ (Col("", "Name") :> Col("", "Sample Name"))
    @@ (Col("", "Ct") :> Col(fluor, "CT"))
    @@ (Col("", "Ct Comment") :> Col("", "Comments"))
    @@ (Col("", "Given Conc (copies/reaction)") :> Col("", "Copies"))

\* f'{fluor}.csv' in filepath or f'{self.reporter_dict[fluor]}.csv' in filepath
rgq_matches(file, fluor) ==
    fluor \in file.contains \/ reporter_dict[fluor] \in file.contains

\* the loop over the fluors for one file; st is the loop's state:
\* self.results, used_filepaths, first_loop and how the run stands
RECURSIVE rgq_fluors(_, _, _, _)
rgq_fluors(file, j, results_table, st) ==
    IF j > Len(reporter_list) \/ st.status # "ok" THEN st
    ELSE LET fluor == reporter_list[j]
             renamed == Rename(results_table, rgq_names(fluor))
             used == Append(st.used, file.path)
             first == {WellCol, Col("", "Sample Name"), Col("", "Copies"),
                       Col("", "Comments"), Col(fluor, "CT")}
             later == {WellCol, Col(fluor, "CT")}
         IN  IF ~rgq_matches(file, fluor)
             THEN rgq_fluors(file, j + 1, results_table, st)
             ELSE IF st.first_loop
             THEN IF first \subseteq renamed.cols
                  THEN rgq_fluors(file, j + 1, renamed,
                          [results |-> Select(renamed, first), used |-> used,
                           first_loop |-> FALSE, status |-> "ok"])
                  ELSE [st EXCEPT !.used = used, !.status = "crash"]
             ELSE IF later \subseteq renamed.cols
                  THEN rgq_fluors(file, j + 1, renamed,
                          [st EXCEPT !.results = Merge(st.results, Select(renamed, later)),
                                     !.used = used])
                  ELSE \* the file's 'Ct' already carries another fluor's name: KeyError
                       [st EXCEPT !.used = used, !.status = "crash"]

\* for filepath in results_filepaths
RECURSIVE rgq_files(_, _, _)
rgq_files(files, i, st) ==
    IF i > Len(files) \/ st.status # "ok" THEN st
    ELSE IF ~files[i].has_ct
         THEN [st EXCEPT !.status = "fatal"]
         ELSE rgq_files(files, i + 1, rgq_fluors(files[i], 1, rgq_read(files[i]), st))

Count(seq, x) == Cardinality({i \in DOMAIN seq : seq[i] = x})

\* faulty variant: only checks that every matched file was selected
same_files_subset(selected, used) == Range(used) \subseteq Range(selected)

\* sorted(results_filepaths) == sorted(used_filepaths): the same paths, each
\* as many times
same_files(selected, used) ==
    \A x \in Range(selected) \cup Range(used) : Count(selected, x) = Count(used, x)

parse_rgq ==
    /\ pc = "start"
    /\ machine_type = "Rotor-Gene"
    /\ LET files == input.files
           paths == [i \in DOMAIN files |-> files[i].path]
           st == rgq_files(files, 1, [results |-> NoTable, used |-> <<>>,
                                      first_loop |-> TRUE, status |-> "ok"])
       IN  IF files = <<>>
           THEN \* select_file: filepaths[0] of an empty selection, IndexError
                pc' = "crash" /\ UNCHANGED <<results, used_filepaths>>
           ELSE IF Len(files) # Cardinality(DOMAIN reporter_dict)
           THEN \* select_file: 'Incorrect number of files', SystemExit
                pc' = "fatal" /\ UNCHANGED <<results, used_filepaths>>
           ELSE /\ results' = st.results
                /\ used_filepaths' = st.used
                /\ pc' = IF st.status # "ok" THEN st.status
                         ELSE IF ~same_files(paths, st.used) THEN "fatal"
                         ELSE "parsed"
    /\ UNCHANGED <<config_vars, df, input, found, results_dict, head, read_attempts,
                   tabs_to_use>>

(***************************************************************************)
(* parse_mic.  The selected file is its extension and its chunks (text) or *)
(* tabs (spreadsheet) in file order; a chunk or tab is the set of marker   *)
(* strings its title contains and the wells of its table.                  *)
(***************************************************************************)
Cycling == "Start Worksheet - Analysis - Cycling"

\* the first of the accepted positions (the loop breaks there), 0 when
\* there is none
FirstChunk(accepted) ==
    IF accepted # {}
    THEN CHOOSE k \in accepted : \A j \in accepted : k <= j
    ELSE 0

\* the test on a text chunk's first line
mic_csv_accepts(title, fluor) ==
    /\ Cycling \in title
    /\ "Result" \in title
    /\ (fluor \in title \/ reporter_dict[fluor] \in title)

\* the test on a spreadsheet tab's name
mic_tab_accepts(tab, fluor) ==
    /\ reporter_dict[fluor] \in tab
    /\ "Result" \in tab
    /\ "Absolute" \notin tab

\* tabs_to_use: fluor -> position of its chunk or tab, for the fluors that
\* have one
mic_tabs_to_use(ext, chunks) ==
    LET pos(f) == FirstChunk({k \in DOMAIN chunks :
                                IF ext = ".csv" THEN mic_csv_accepts(chunks[k].title, f)
                                ELSE mic_tab_accepts(chunks[k].title, f)})
    IN  [f \in {g \in DOMAIN reporter_dict : pos(g) # 0} |-> pos(f)]

\* the reporter's table: 'Cq' renamed, missing Cq filled with cq_cutoff
mic_reporter_table(chunk, fluor) ==
    Table({WellCol, Col("", "Sample Name"), Col(fluor, "CT")},
          [i \in DOMAIN chunk.wells |->
              (WellCol :> Num(chunk.wells[i]))
              @@ (Col("", "Sample Name") :> Str("S1"))
              @@ (Col(fluor, "CT") :> IF chunk.wells[i] = 1 THEN Num(29) ELSE Num(cq_cutoff))])

parse_mic ==
    /\ pc = "start"
    /\ machine_type = "Mic"
    /\ tabs_to_use' = mic_tabs_to_use(input.ext, input.chunks)
    /\ LET tables == [f \in DOMAIN reporter_dict |->
                         mic_reporter_table(input.chunks[tabs_to_use'[f]], f)]
           summary == summarize(tables, reporter_list)
       IN  IF input.ext # ".csv" /\ ~input.has_info
           THEN \* no 'General Information' sheet: 'Incorrect file selected', SystemExit
                /\ pc' = "fatal"
                /\ UNCHANGED <<found, results_dict, results>>
           ELSE IF ~fluors_match(DOMAIN tabs_to_use', DOMAIN reporter_dict)
           THEN /\ pc' = "fatal"
                /\ found' = DOMAIN tabs_to_use'
                /\ UNCHANGED <<results_dict, results>>
           ELSE /\ found' = DOMAIN tabs_to_use'
                /\ results_dict' = tables
                /\ results' = summary.table
                /\ pc' = IF summary.status = "ok" THEN "parsed" ELSE summary.status
    /\ UNCHANGED <<config_vars, df, input, used_filepaths, head, read_attempts>>

(***************************************************************************)
(* The importer's specification: an assay, an instrument and a selection   *)
(* of input, then parse() dispatching on the instrument.                   *)
(***************************************************************************)
NumPlateWells == 2

PlateWells == 1..NumPlateWells

ImporterAssay ==
    CHOOSE a \in Assays : a.list = <<"CY5", "FAM">>

\* what one row of a QuantStudio results table can measure
QsMeasures(label) ==
    IF label = "ROX"
    THEN { [ct |-> Num(29), be |-> Num(10), drn |-> Num(2)] }
    ELSE { [ct |-> Num(29), be |-> Num(10), drn |-> Num(2)],
           [ct |-> Num(28), be |-> Num(5), drn |-> Num(3)],
           [ct |-> Str("Undetermined"), be |-> Num(4), drn |-> Num(1)] }

QsLabels == <<"CY5", "FAM", "ROX">>

QsRow(w, label, m) ==
    (Col("", "Well Position") :> Num(w))
    @@ (Col("", "Sample Name") :> Str("S1"))
    @@ (Col("", "Reporter") :> Str(label))
    @@ (Col("", "CT") :> m.ct)
    @@ (Col("", "Cq Conf") :> Frac(9, 10))
    @@ (Col("", "Baseline End") :> m.be)
    @@ (Col("", "Delta Rn (last cycle)") :> m.drn)

\* one well's choice: each label absent (<<>>) or measured (<<m>>)
QsWellPicks ==
    { p \in [1..Len(QsLabels) -> {<<>>} \cup {<<m>> : m \in QsMeasures("CY5")}] :
        \A k \in 1..Len(QsLabels) : p[k] = <<>> \/ p[k][1] \in QsMeasures(QsLabels[k]) }

QsWellRows(w, pick) ==
    FlattenSeq([k \in 1..Len(QsLabels) |->
                  IF pick[k] = <<>> THEN <<>> ELSE <<QsRow(w, QsLabels[k], pick[k][1])>>])

\* a results table in export order, well by well; and a file of another
\* instrument, without the 'CT' column
QsInputs ==
    { [kind |-> "qs", has_ct |-> TRUE,
       rows |-> FlattenSeq([w \in PlateWells |-> QsWellRows(w, picks[w])])] :
        picks \in [PlateWells -> QsWellPicks] }
    \cup { [kind |-> "qs", has_ct |-> FALSE, rows |-> <<>>] }


MaxFiles == 3

\* the wells of a file's or chunk's table: the whole plate, or its first well
WellLists == { [i \in PlateWells |-> i], <<1>> }

\* the paths the user can pick among, for an assay with the reporters CY5
\* ('Internal Control') and FAM ('Ebola')
RgqPaths ==
    { [path |-> "run_FAM.csv", contains |-> {"FAM"}],
      [path |-> "run_CY5.csv", contains |-> {"CY5"}],
      [path |-> "run_Ebola.csv", contains |-> {"Ebola"}],
      [path |-> "notes.csv", contains |-> {}],
      [path |-> "FAM.csv_CY5.csv", contains |-> {"FAM", "CY5"}] }

RgqFiles ==
    { [path |-> p.path, contains |-> p.contains, has_ct |-> TRUE, wells |-> ws] :
        p \in RgqPaths, ws \in WellLists }
    \cup { [path |-> p.path, contains |-> p.contains, has_ct |-> FALSE, wells |-> <<1>>] :
             p \in RgqPaths }

\* sequences over S of length 0..n
RECURSIVE SeqsUpTo(_, _)
SeqsUpTo(S, n) ==
    IF n = 0 THEN {<<>>}
    ELSE LET shorter == SeqsUpTo(S, n - 1)
         IN  shorter \cup {Append(q, x) : q \in {r \in shorter : Len(r) = n - 1}, x \in S}

\* a selection: different paths, in the dialog's order
RgqInputs ==
    { [kind |-> "rgq", files |-> fs] :
        fs \in { q \in SeqsUpTo(RgqFiles, MaxFiles) :
                   \A i, j \in DOMAIN q : i # j => q[i].path # q[j].path } }

MaxChunks == 3

MicTitles ==
    { {Cycling, "Result", "FAM", "Ebola"},
      {Cycling, "Result", "CY5", "Internal Control"},
      {Cycling, "Result", "Absolute", "FAM", "Ebola"},
      {Cycling, "FAM", "Ebola"},
      {"Start Worksheet - Samples"} }

MicChunks == { [title |-> t, wells |-> ws] : t \in MicTitles, ws \in WellLists }

MicInputs ==
    { [kind |-> "mic", ext |-> e, has_info |-> TRUE, chunks |-> cs] :
        e \in {".csv", ".xlsx"},
        cs \in { q \in SeqsUpTo(MicChunks, MaxChunks) :
                   \A i, j \in DOMAIN q : i # j => q[i].title # q[j].title } }
    \cup { [kind |-> "mic", ext |-> ".xlsx", has_info |-> FALSE, chunks |-> <<>>] }

InitImporter ==
    /\ pc = "start"
    /\ division = "vhf"
    /\ reporter_list = ImporterAssay.list
    /\ reporter_dict = ImporterAssay.dict
    /\ ic = ImporterAssay.ic
    /\ max_dRn = <<>>
    /\ pos_cutoff = DefaultPosCutoff
    /\ cq_cutoff = DefaultCqCutoff
    /\ df = <<>>
    /\ results = NoTable
    /\ used_filepaths = <<>>
    /\ found = {}
    /\ head = <<>>
    /\ tabs_to_use = <<>>
    /\ read_attempts = 0
    /\ results_dict = <<>>
    /\ \/ machine_type \in {"QuantStudio 3", "QuantStudio 5"} /\ input \in QsInputs
       \/ machine_type = "Rotor-Gene" /\ input \in RgqInputs
       \/ machine_type = "Mic" /\ input \in MicInputs

\* parse(): the parser of the declared instrument
NextImporter == parse_rgq \/ parse_mic \/ parse_qs

SpecImporter == InitImporter /\ [][NextImporter]_vars

(***************************************************************************)
(* The reader's specification: parse_qs on a spreadsheet whose read can    *)
(* fail any number of times before it succeeds or the user cancels.        *)
(***************************************************************************)
InitReader == InitImporter /\ IsQuantStudio(machine_type)

NextReader == parse_qs_read_fails \/ parse_qs

SpecReader == InitReader /\ [][NextReader]_vars

(***************************************************************************)
(* The extractor's specification: the lines of a file, then csv_to_df.     *)
(***************************************************************************)
MaxLines == 4

\* an empty line, a line of blanks, the flag line, a header and a data row
LineInputs == { <<>>, <<" ", "">>, <<"[Results]">>, <<"Well", "CT">>, <<"1", "29">> }

\* an empty line, a line of blanks, a line with the flag, one with the stop,
\* one with both and one with neither
HeaderLineInputs ==
    { <<>>, <<"", " ">>, <<"Experiment Name", "run1">>, <<"Log", "end">>,
      <<"Experiment Log", "x">>, <<"Well", "CT">> }

MaxRows == 4

\* the header as read: the true one, or a line above it when the table
\* starts lower than the fixed offset
SheetHeaders == { <<Str("Well"), Str("Cq")>>, <<Str("Assay"), NaN>> }

\* the true header line, two data rows, a line of text and an empty row
SheetRows ==
    { <<Str("Well"), Str("Cq")>>, <<Num(1), Num(29)>>, <<Num(2), NaN>>,
      <<Str("Notes"), NaN>>, <<NaN, NaN>> }

InitExtractor ==
    /\ pc = "start"
    /\ machine_type = "QuantStudio 5"
    /\ division = "vhf"
    /\ reporter_list = ImporterAssay.list
    /\ reporter_dict = ImporterAssay.dict
    /\ ic = ImporterAssay.ic
    /\ max_dRn = <<>>
    /\ pos_cutoff = DefaultPosCutoff
    /\ cq_cutoff = DefaultCqCutoff
    /\ df = <<>>
    /\ results = NoTable
    /\ used_filepaths = <<>>
    /\ found = {}
    /\ head = <<>>
    /\ tabs_to_use = <<>>
    /\ read_attempts = 0
    /\ results_dict = <<>>
    /\ input \in { [kind |-> "csv", flag |-> "[Results]", lines |-> ls] :
                       ls \in SeqsUpTo(LineInputs, MaxLines) }
                \cup { [kind |-> "header", flag |-> f, stop |-> st, lines |-> ls] :
                         f \in {"", "Experiment"}, st \in {"", "Log"},
                         ls \in SeqsUpTo(HeaderLineInputs, MaxLines) }
                \cup { [kind |-> "sheet", table |-> [header |-> h, rows |-> rs]] :
                         h \in SheetHeaders, rs \in SeqsUpTo(SheetRows, MaxRows) }

NextExtractor == call_csv_to_df \/ call_extract_header \/ call_extract_results

SpecExtractor == InitExtractor /\ [][NextExtractor]_vars

(***************************************************************************)
(* Properties of the classifier                                            *)
(***************************************************************************)
Annotated == pc \in {"analysed", "reanalysed"}

\* python positions 1..len-1 of reporter_list: the reporters vhf_result and
\* hiv_analysis iterate over
TargetPositions == 2..Len(reporter_list)

Ct(row, i) == row[Col(reporter_list[i], "CT")]

\* "called positive" as the specification words it: Cq strictly below the
\* cutoff and, on QuantStudio 3 / 5 only, dRn / max_dRn above the fraction
QualifiesPositive(row, i) ==
    LET f == reporter_list[i]
        cq == row[Col(f, "CT")]
    IN  /\ cq.n < pos_cutoff * cq.d
        /\ machine_type \in {"QuantStudio 3", "QuantStudio 5"} =>
              LET r == row[Col(f, "dRn")]
                  mx == max_dRn[f]
              IN  mx.n > 0 /\ r.n * mx.d * dRn_percent_cutoff.d
                                > dRn_percent_cutoff.n * mx.n * r.d

Qualifying(row) == {i \in TargetPositions : QualifiesPositive(row, i)}

\* the earliest-configured reporter among those with the lowest Cq
Winner(row) ==
    CHOOSE i \in Qualifying(row) :
        \A j \in Qualifying(row) :
            \/ Ct(row, i).n * Ct(row, j).d < Ct(row, j).n * Ct(row, i).d
            \/ (Ct(row, i) = Ct(row, j) /\ i <= j)

Measurements(row) == [c \in {x \in DOMAIN row : x[1] # ""} |-> row[c]]

\* C1: after vhf_analysis, a well in which some non-control reporter
\* qualifies as positive is called '<display name> Positive' for the
\* qualifying reporter with the lowest Cq, the earliest-configured one on an
\* exact tie; and wells with equal measurements get equal calls.
C1_LowestCqEarliestOnTie ==
    (Annotated /\ division = "vhf") =>
        /\ \A w \in DOMAIN df :
              Qualifying(df[w]) # {} =>
                  df[w][Col("", "Result")]
                      = Str2(reporter_dict[reporter_list[Winner(df[w])]], "Positive")
        /\ \A v, w \in DOMAIN df :
              Measurements(df[v]) = Measurements(df[w]) =>
                  df[v][Col("", "Result")] = df[w][Col("", "Result")]

\* a well whose two targets both qualify with exactly equal Cq, called for the
\* first of them
C1_Witness ==
    /\ Annotated /\ division = "vhf" /\ Len(reporter_list) = 3
    /\ \E w \in DOMAIN df :
          /\ Qualifying(df[w]) = {2, 3}
          /\ Ct(df[w], 2) = Ct(df[w], 3)
          /\ df[w][Col("", "Result")] = Str2(reporter_dict[reporter_list[2]], "Positive")

\* C2: the candidate list holds, for every non-control reporter, its own Cq
\* iff it is called positive (strict Cq < pos_cutoff, and the dRn fraction on
\* QuantStudio 3 / 5 only) and the sentinel 99 otherwise.
C2_CandidateIffPositive ==
    (Annotated /\ division = "vhf") =>
        \A w \in DOMAIN df : \A i \in TargetPositions :
            /\ cq_vals(df[w])[i] =
                  IF QualifiesPositive(df[w], i) THEN Ct(df[w], i) ELSE Num(NegSentinel)
            /\ Ct(df[w], i) = Num(pos_cutoff) => cq_vals(df[w])[i] = Num(NegSentinel)

\* on a QuantStudio, one reporter below the cutoff is held back by its dRn
\* fraction, and a reporter exactly at the cutoff is held back by its Cq
C2_Witness ==
    /\ Annotated /\ division = "vhf" /\ machine_type = "QuantStudio 5"
    /\ \E w \in DOMAIN df : \E i, j \in TargetPositions :
          /\ Ct(df[w], i).n < pos_cutoff /\ cq_vals(df[w])[i] = Num(NegSentinel)
          /\ Ct(df[w], j) = Num(pos_cutoff) /\ cq_vals(df[w])[j] = Num(NegSentinel)

\* C3: when no non-control reporter qualifies, the call is 'Negative' iff
\* the internal control's Cq is strictly below pos_cutoff and 'Invalid
\* Result' otherwise; all reporters at the substitution value is invalid, the
\* same well with an amplified internal control is negative.
C3_NegativeOrInvalid ==
    (Annotated /\ division = "vhf") =>
        \A w \in DOMAIN df :
            LET row == df[w]
                icq == row[Col(ic, "CT")]
                amplified == icq.n < pos_cutoff * icq.d
                at_substitution == \A i \in TargetPositions : Ct(row, i) = Num(cq_cutoff)
            IN  /\ Qualifying(row) = {} =>
                      /\ amplified => row[Col("", "Result")] = Str("Negative")
                      /\ ~amplified => row[Col("", "Result")] = Str("Invalid Result")
                /\ (at_substitution /\ icq = Num(cq_cutoff)) =>
                      row[Col("", "Result")] = Str("Invalid Result")
                /\ (at_substitution /\ amplified) =>
                      row[Col("", "Result")] = Str("Negative")

\* every reporter, the internal control included, at the substitution value
C3_Witness ==
    /\ Annotated /\ division = "vhf"
    /\ \E w \in DOMAIN df :
          /\ \A i \in DOMAIN reporter_list : Ct(df[w], i) = Num(cq_cutoff)
          /\ df[w][Col("", "Result")] = Str("Invalid Result")

Percentage(row, i) == row[Col(reporter_dict[reporter_list[i]], "DRM Percentage")]

Call(row, i) == row[Col(reporter_dict[reporter_list[i]], "Call")]

Quantity(row, i) == row[Col(reporter_list[i], "Quantity")]

\* C4: after hiv_analysis, for every well and non-control reporter the call
\* is 'Negative' iff percentage < min_drm_percent or the internal control's
\* quantity < 50, else 'Positive' iff percentage >= max_drm_percent, else
\* 'Indeterminate'; the boundaries follow, and a zero internal control gives
\* 'Negative' (the run does not fault on the division).
C4_HivCall ==
    (Annotated /\ division = "hiv") =>
        \A w \in DOMAIN df : \A i \in TargetPositions :
            LET row == df[w]
                p == Percentage(row, i)
                icq == row[Col(ic, "Quantity")]
                negative == Lt(p, min_drm_percent) \/ icq.n < MinIcQuantity * icq.d
            IN  /\ Call(row, i) = Str("Negative") <=> negative
                /\ Call(row, i) = Str("Positive") <=> (~negative /\ Ge(p, max_drm_percent))
                /\ Call(row, i) = Str("Indeterminate")
                      <=> (~negative /\ ~Ge(p, max_drm_percent))
                /\ (p = max_drm_percent /\ ~negative) => Call(row, i) = Str("Positive")
                /\ (p = min_drm_percent /\ icq.n >= MinIcQuantity * icq.d)
                      => Call(row, i) # Str("Negative")
                /\ icq = Num(0) => Call(row, i) = Str("Negative")

\* a well with no internal control at all and a non-zero reporter quantity
C4_Witness ==
    /\ Annotated /\ division = "hiv"
    /\ \E w \in DOMAIN df : \E i \in TargetPositions :
          /\ df[w][Col(ic, "Quantity")] = Num(0)
          /\ Quantity(df[w], i) # Num(0)
          /\ Call(df[w], i) = Str("Negative")

\* C5 (as claimed): the stored percentage is reporter quantity / internal
\* control quantity when the latter is non-zero, and 0 whenever it is 0.
C5_PercentageZeroWhenNoControl ==
    (Annotated /\ division = "hiv") =>
        \A w \in DOMAIN df : \A i \in TargetPositions :
            LET q == Quantity(df[w], i)
                icq == df[w][Col(ic, "Quantity")]
            IN  Percentage(df[w], i) =
                    IF icq.n # 0 THEN Frac(q.n * icq.d, q.d * icq.n) ELSE Num(0)

CallColumns(row) == {c \in DOMAIN row : c[2] \in {"Result", "DRM Percentage", "Call"}}

\* C9: running vhf_analysis / hiv_analysis on the table it has annotated
\* leaves every call and percentage column as it was and adds no column.
C9_Idempotent ==
    [][Annotated =>
          /\ DOMAIN df' = DOMAIN df
          /\ \A w \in DOMAIN df :
                /\ DOMAIN df'[w] = DOMAIN df[w]
                /\ \A c \in CallColumns(df[w]) : df'[w][c] = df[w][c]]_vars

\* a second run has happened, on a table holding a call
C9_Witness ==
    /\ pc = "reanalysed"
    /\ \E w \in DOMAIN df : CallColumns(df[w]) # {}

(***************************************************************************)
(* Properties of the importer                                              *)
(***************************************************************************)
ConfiguredReporters == DOMAIN reporter_dict

\* the well key sets of the per-reporter partial tables of the run
PartialWellSets ==
    IF machine_type = "Rotor-Gene"
    THEN {{Num(input.files[i].wells[k]) : k \in DOMAIN input.files[i].wells} :
            i \in DOMAIN input.files}
    ELSE {WellKeys(results_dict[f]) : f \in DOMAIN results_dict}

\* C6 (as claimed): a merge that completes has found the same well keys in
\* every per-reporter table, and the merged table has one row per well key
\* and the well key set of every per-reporter table; differing well key sets
\* never get past the merge.
C6_NoWellDroppedOrDuplicated ==
    pc = "parsed" =>
        /\ Len(results.rows) = Cardinality(WellKeys(results))
        /\ \A ws \in PartialWellSets : ws = WellKeys(results)

\* the filenames of the selection that carry no configured token
Unmatched ==
    {i \in DOMAIN input.files :
        input.files[i].contains
            \cap (ConfiguredReporters \cup {reporter_dict[f] : f \in ConfiguredReporters}) = {}}

\* C7: a Rotor-Gene selection of exactly N files of which one matches no
\* configured reporter never parses: the run is aborted; and a run that does
\* parse has matched exactly the selected files, each once.
C7_UnmatchedFileAborts ==
    (machine_type = "Rotor-Gene" /\ pc # "start") =>
        /\ (Len(input.files) = Cardinality(ConfiguredReporters) /\ Unmatched # {})
              => pc \in {"fatal", "crash"}
        /\ pc = "parsed" =>
              \A i \in DOMAIN input.files : Count(used_filepaths, input.files[i].path) = 1

\* N readable files, all but one matched, stopped by the comparison at the end
C7_Witness ==
    /\ machine_type = "Rotor-Gene" /\ pc = "fatal"
    /\ Len(input.files) = Cardinality(ConfiguredReporters)
    /\ \A i \in DOMAIN input.files : input.files[i].has_ct
    /\ Cardinality(Unmatched) = 1
    /\ Len(used_filepaths) = Len(input.files) - 1

\* the reporters found in the input
FoundReporters ==
    IF IsQuantStudio(machine_type)
    THEN {input.rows[i][Col("", "Reporter")].s[1] : i \in DOMAIN input.rows}
    ELSE found

\* C8: parse_qs and parse_mic build per-reporter tables only when the
\* reporters found in the input are exactly the configured ones; on any
\* difference the run is fatal with no per-reporter table and no result.
C8_ReporterSetValidated ==
    (machine_type # "Rotor-Gene" /\ input.kind \in {"qs", "mic"} /\ pc # "start") =>
        /\ FoundReporters # ConfiguredReporters =>
              pc = "fatal" /\ results_dict = <<>> /\ results = NoTable
        /\ (results_dict # <<>> \/ pc = "parsed") => FoundReporters = ConfiguredReporters

\* a QuantStudio table with every configured reporter and one more
C8_Witness ==
    /\ machine_type = "QuantStudio 5" /\ pc = "fatal" /\ input.has_ct
    /\ ConfiguredReporters \subseteq FoundReporters
    /\ FoundReporters # ConfiguredReporters
    /\ results_dict = <<>>

\* the lines csv_to_df is to buffer: those after a flag line with no blank
\* line in between (the blank line excluded)
Buffered(lines, flag) ==
    SelectSeq([i \in DOMAIN lines |-> [at |-> i, line |-> lines[i]]],
              LAMBDA e : \E j \in 1..(e.at - 1) :
                            /\ flag \in Range(lines[j])
                            /\ \A k \in (j + 1)..e.at : ~isblank(lines[k]))

\* C10 (as claimed): csv_to_df takes the first buffered line as the header of
\* the remaining ones, and fails whenever no row remains after the header is
\* removed: it never returns a table without rows.
C10_NeverReturnsEmptyTable ==
    (input.kind = "csv" /\ pc # "start") =>
        LET buffered == Buffered(input.lines, input.flag)
        IN  /\ Len(buffered) <= 1 => pc = "crash"
            /\ pc = "returned" =>
                  /\ Len(results.rows) = Len(buffered) - 1
                  /\ results.cols = {Col("", c) : c \in Range(buffered[1].line)}
                  /\ results.rows # <<>>

\* the positions of the lines that end capture and of those that start it
Terminating == {i \in DOMAIN input.lines :
                  IF input.stop = "" THEN isblank(input.lines[i])
                  ELSE str_contains(input.lines[i], input.stop)}

Flagged == {i \in DOMAIN input.lines :
              input.flag # "" /\ str_contains(input.lines[i], input.flag)}

Captured(i) ==
    \/ input.flag = "" /\ Terminating \cap 1..i = {}
    \/ \E j \in Flagged : j <= i /\ Terminating \cap (j + 1)..i = {}

Min(S) == CHOOSE n \in S : \A m \in S : n <= m

\* C13 (as claimed): the captured header is the one block of lines from the
\* line where capture starts up to the first terminating line from there on;
\* nothing at or after that line is captured.
C13_HeaderIsOneBlock ==
    (input.kind = "header" /\ pc = "returned") =>
        LET n == Len(input.lines)
            start == IF input.flag = "" THEN 1
                     ELSE IF Flagged = {} THEN n + 1 ELSE Min(Flagged)
            ends == {i \in Terminating : i >= start}
            end == IF ends = {} THEN n + 1 ELSE Min(ends)
        IN  head = SubSeq(input.lines, start, end - 1)

\* C12 (as claimed): a parser attempts its input read at most once per run
\* and a failed read aborts the run; the read is never attempted again.
C12_NoRetry ==
    /\ read_attempts <= 1
    /\ pc # "retry"

\* C14 (as claimed): the chunk or tab parse_mic selects for a reporter has
\* the result marker and the reporter's fluorophore or display name in its
\* title, and never 'Absolute'.
C14_SelectedTabIsRawResult ==
    (machine_type = "Mic" /\ pc # "start") =>
        \A f \in DOMAIN tabs_to_use :
            LET title == input.chunks[tabs_to_use[f]].title
            IN  /\ "Result" \in title
                /\ (f \in title \/ reporter_dict[f] \in title)
                /\ "Absolute" \notin title

\* C15 (as claimed): after parse_qs, the max delta Rn of each reporter is the
\* maximum over that reporter's rows whose Baseline End is strictly above the
\* threshold, 5 for the internal control (self.ic) and 10 for the others.
C15_MaxSignalAboveThreshold ==
    (IsQuantStudio(machine_type) /\ pc = "parsed") =>
        \A f \in DOMAIN reporter_dict :
            LET threshold == IF f = ic THEN 5 ELSE 10
                rows == {i \in DOMAIN input.rows :
                           /\ input.rows[i][Col("", "Reporter")] = Str(f)
                           /\ Gt(input.rows[i][Col("", "Baseline End")], Num(threshold))}
            IN  max_dRn[f] = FloatMax({input.rows[i][Col("", "Delta Rn (last cycle)")] : i \in rows})

\* C16 (as claimed): extract_results removes exactly the rows whose first
\* cell does not convert to an integer, keeping the others in order; when a
\* row was removed the new header is a removed row that precedes the data
\* rows, otherwise the sheet is returned unchanged; and applying it to its
\* own result changes nothing.
C16_RecoveryPass ==
    (input.kind = "sheet" /\ pc = "returned") =>
        LET rows == input.table.rows
            removed == {i \in DOMAIN rows : rows[i][1].k # "num"}
            data == DOMAIN rows \ removed
        IN  /\ results.rows = SelectSeq(rows, LAMBDA r : r[1].k = "num")
            /\ removed # {} =>
                  \E i \in removed : /\ results.header = rows[i]
                                     /\ \A j \in data : i < j
            /\ removed = {} => results = input.table
            /\ extract_results(results) = results

\* C17 (as claimed): vhf_analysis and hiv_analysis only append columns:
\* every column the table had before keeps, in every well, the value it
\* had, missing cells included; only call and percentage columns are new.
C17_OnlyAppendsColumns ==
    [][/\ DOMAIN df' = DOMAIN df
       /\ \A w \in DOMAIN df :
             /\ \A c \in DOMAIN df[w] \ CallColumns(df[w]) :
                   c \in DOMAIN df'[w] /\ df'[w][c] = df[w][c]
             /\ (DOMAIN df'[w] \ DOMAIN df[w]) \subseteq CallColumns(df'[w])]_vars

\* C18 (as claimed): wherever the internal control stands in the configured
\* order, the targets are exactly the other reporters: a well is never called
\* '<internal control> Positive', a well in which a non-control reporter
\* qualifies is called positive for a non-control reporter, and hiv_analysis
\* adds a percentage and a call column for every reporter but the control.
C18_TargetsAreTheNonControls ==
    Annotated =>
        \A w \in DOMAIN df :
            IF division = "vhf"
            THEN /\ df[w][Col("", "Result")] # Str2(reporter_dict[ic], "Positive")
                 /\ (\E i \in DOMAIN reporter_list :
                        reporter_list[i] # ic /\ QualifiesPositive(df[w], i))
                    => df[w][Col("", "Result")]
                          \in {Str2(reporter_dict[f], "Positive") : f \in Range(reporter_list) \ {ic}}
            ELSE \A f \in Range(reporter_list) :
                    /\ Col(reporter_dict[f], "DRM Percentage") \in DOMAIN df[w] <=> f # ic
                    /\ Col(reporter_dict[f], "Call") \in DOMAIN df[w] <=> f # ic

\* C19 (as claimed): whatever the two cutoffs, a reporter whose Cq is the
\* substituted cq_cutoff (no amplification) is never the one a well is called
\* positive for, and a well whose internal control has the substituted Cq
\* is never called 'Negative'.
C19_SubstitutedCqNeverPositive ==
    (Annotated /\ division = "vhf") =>
        \A w \in DOMAIN df :
            /\ \A i \in TargetPositions :
                  Ct(df[w], i) = Num(cq_cutoff) =>
                      df[w][Col("", "Result")] # Str2(reporter_dict[reporter_list[i]], "Positive")
            /\ Ct(df[w], 1) = Num(cq_cutoff) => df[w][Col("", "Result")] # Str("Negative")

\* C20 (as claimed): when parse_rgq completes, the filename matching is a
\* bijection between the configured reporters and the selected files, and
\* the table has the four shared columns and exactly one '<fluor> CT' column
\* per configured reporter.
C20_FilesMatchReportersOneToOne ==
    (machine_type = "Rotor-Gene" /\ pc = "parsed") =>
        /\ \A f \in ConfiguredReporters :
              Cardinality({i \in DOMAIN input.files : rgq_matches(input.files[i], f)}) = 1
        /\ \A i \in DOMAIN input.files :
              Cardinality({f \in ConfiguredReporters : rgq_matches(input.files[i], f)}) = 1
        /\ results.cols =
              {WellCol, Col("", "Sample Name"), Col("", "Copies"), Col("", "Comments")}
              \cup {Col(f, "CT") : f \in ConfiguredReporters}

====
